---- MODULE Spec2Model ----
(***************************************************************************)
(* Model of the no-drone-zone violation monitor                            *)
(* (src/backend/src/NDZviolationMonitoring.ts, the version that keeps      *)
(* _lastUpdatedAt, lines 186-396), of the controller that serves it and of *)
(* the page that polls it (src/frontend/index.js).                         *)
(*                                                                         *)
(* Time is wall-clock milliseconds, read at the resolution of the timer:   *)
(* the clock advances when the interval callback runs, and every other     *)
(* callback runs between two ticks and reads the time of the tick before   *)
(* it.  Every callback of the event loop is one action; an async function  *)
(* is cut at its awaits.  A continuation                                   *)
(* that is resumed by an already settled promise runs before any other     *)
(* callback (microtask), which the guard ~Busy expresses.                  *)
(*                                                                         *)
(* Objects are kept in a heap: the store is an array of references, as in  *)
(* the source, so that a copy of the array shares its records.             *)
(***************************************************************************)
EXTENDS Integers, Sequences, FiniteSets

\* ---------------------------------------------------------------- bounds
MaxCycles == 2      \* checkNewViolations runs that may be in flight at once
MaxDrones == 2      \* drones listed by one snapshot
MaxTicks == 3       \* firings of the interval timer while the feed answers
MaxFeedDownTicks == 6 \* firings of the interval timer while the feed is down
MaxCallerTicks == 2 \* firings of the interval timer while a caller holds the list
MaxRefs == 4        \* live record objects
MaxBrowserTicks == 1 \* firings of the interval timer while the page polls
MaxPolls == 2       \* polls of the page
FeedUpTicks == 1    \* firings of the interval timer before the feed goes down for good
MaxOutageTicks == 5 \* firings of the interval timer in a run that ends in an outage

\* ------------------------------------------------------ program constants
minToStoreViolationFor == 10
fetchIntervalInSecs == 2
NDZRadiusInMm == 100000
NDZcenterPosX == 250000
NDZcenterPosY == 250000
ThrottleMs == 6000

\* ------------------------------------------------------------ environment
null == [null |-> TRUE]
Date(t) == [time |-> t]

\* The drones that fly, in the order in which the feed lists them.
SerialNumberList == <<"SN1", "SN2">>
SerialNumbers == {SerialNumberList[i] : i \in DOMAIN SerialNumberList}
Rank(sn) == CHOOSE i \in DOMAIN SerialNumberList : SerialNumberList[i] = sn

\* Reported positions (mm): distances 50 000, 100 000 and 101 000 mm.
Positions == {<<280000, 290000>>, <<190000, 330000>>, <<250000, 351000>>}

\* How far the feed's snapshotTimestamp lies behind the local clock (ms).
FeedLags == {597000, 598000}

Drones == [serialNumber : SerialNumbers, position : Positions]

RECURSIVE SeqsUpTo(_, _)
SeqsUpTo(S, n) ==
  IF n = 0 THEN {<<>>}
  ELSE LET shorter == SeqsUpTo(S, n - 1)
       IN  shorter \cup {Append(q, x) : q \in {p \in shorter : Len(p) = n - 1}, x \in S}

\* The parsed feed answers that can arrive at wall-clock time t from a feed
\* whose clock is lag behind.
\* The feed lists every drone it sees once.
DroneCaptures ==
  {q \in SeqsUpTo(Drones, MaxDrones) :
     \A i, j \in 1 .. Len(q) : i < j => Rank(q[i].serialNumber) < Rank(q[j].serialNumber)}

DroneReports(t, lag) ==
  [drone : DroneCaptures, snapshotTimestamp : {t - lag}]

\* The pilot registry's record for a drone.
PilotData(sn) ==
  [firstName |-> sn, lastName |-> "Doe", phoneNumber |-> "+358", email |-> "p@x.fi",
   createdDt |-> "2022"]

\* The settled results a lookup of sn can have (Promise.allSettled).
LookupResults(sn) ==
  { [status |-> "fulfilled", httpStatus |-> 200, data |-> PilotData(sn)],
    [status |-> "fulfilled", httpStatus |-> 200, data |-> null],
    [status |-> "fulfilled", httpStatus |-> 204, data |-> null],
    [status |-> "rejected", httpStatus |-> 0, data |-> null] }

\* ------------------------------------------------------------------ state
VARIABLES
  now,            \* wall clock (ms since start)
  feedLag,        \* how far the feed's clock lies behind the local clock
  violations,     \* this.violations: array of references into heap
  heap,           \* reference -> NDZViolation object
  lastUpdatedAt,  \* this._lastUpdatedAt: Date or null
  throttle,       \* this.throttle
  throttleTimers, \* due times of the pending setTimeout callbacks, oldest first
  cycles,         \* the checkNewViolations runs: position and locals
  returned,       \* arrays handed out by getViolations and still held by a caller
  last429At,      \* history: when the feed last answered 429 (Date or null)
  lastOp,         \* history: what the callback that ran last did
  browser         \* the page: its ViolationTable and the responses on their way to it

vars == <<now, feedLag, violations, heap, lastUpdatedAt, throttle,
          throttleTimers, cycles, returned, last429At, lastOp, browser>>

Refs == 1 .. MaxRefs
Cycles == 1 .. MaxCycles

IdleCycle == [pc |-> "idle", droneReport |-> null, distToNDZCenterPerDrone |-> <<>>,
              newDrones |-> <<>>, newPilots |-> null, lookups |-> <<>>]

NoOp == [op |-> "none"]

\* The page after the constructor of ViolationTable: the spinner is shown.
\* shownFrom is history: the number of the response the display was taken from.
NewViolationTable ==
  [polls |-> 0, responses |-> {}, perviousDataDateAndTime |-> null,
   display |-> "spinner", rows |-> <<>>, shownFrom |-> 0]

Init ==
  /\ now = 0
  /\ feedLag \in FeedLags
  /\ violations = <<>>
  /\ heap = <<>>
  /\ lastUpdatedAt = null
  /\ throttle = FALSE
  /\ throttleTimers = <<>>
  /\ cycles = [c \in Cycles |-> IdleCycle]
  /\ returned = <<>>
  /\ last429At = null
  /\ lastOp = NoOp
  /\ browser = NewViolationTable

\* ---------------------------------------------------------------- helpers
Range(f) == {f[i] : i \in DOMAIN f}

Abs(n) == IF n < 0 THEN 0 - n ELSE n

\* Math.sqrt on the perfect squares the positions above produce.
Sqrt(n) == CHOOSE r \in 0 .. n : r * r = n

\* calcDistanceToNDZcenter.  The squares are taken in metres and the root
\* scaled back, which is the same number for the whole-metre offsets above.
calcDistanceToNDZcenter(drone) ==
  LET x == drone.position[1] - NDZcenterPosX
      y == drone.position[2] - NDZcenterPosY
  IN  1000 * Sqrt((Abs(x) \div 1000) * (Abs(x) \div 1000)
                  + (Abs(y) \div 1000) * (Abs(y) \div 1000))

\* ------------------------------------------------------------- the store
msToStoreFor == minToStoreViolationFor * 60 * 1000

\* Objects that are still referenced: by the store or by a caller's array.
Live(vs, ret) == Range(vs) \cup Range(ret)

\* Mutant: a record that is exactly msToStoreFor old is dropped too.
removeTooOldViolations_Strict(vs, h, t) ==
  SelectSeq(vs, LAMBDA r : t - h[r].latestCaptureDateAndTime.time < 10 * 60 * 1000)

\* removeTooOldViolations at wall-clock time t: the filtered array.
removeTooOldViolations(vs, h, t) ==
  SelectSeq(vs, LAMBDA r : t - h[r].latestCaptureDateAndTime.time <= msToStoreFor)

\* getViolations: [...this.violations], a new array of the same references.
getViolations == violations

\* Object.fromEntries(this.violations.map(v => [v.serialNumber, v])):
\* the LAST record of a serial number is the one the map holds.
serialNumberViolationMap(vs, h, sn) ==
  LET idx == {i \in 1 .. Len(vs) : h[vs[i]].serialNumber = sn}
  IN  IF idx = {} THEN 0 ELSE vs[CHOOSE i \in idx : \A j \in idx : j <= i]

\* Mutant: the newly observed distance replaces the stored one.
UpdateOne_Overwrites(vs, h, distAndDrone, dateAndTime) ==
  LET r == serialNumberViolationMap(vs, h, distAndDrone.serialNumber)
  IN  IF r = 0 THEN h
      ELSE [h EXCEPT
             ![r].latestCaptureDateAndTime = dateAndTime,
             ![r].closestDistanceInMm = distAndDrone.distance]

\* Mutant: a closer approach rebuilds the record and loses its pilot.
UpdateOne_DropsPilot(vs, h, distAndDrone, dateAndTime) ==
  LET r == serialNumberViolationMap(vs, h, distAndDrone.serialNumber)
  IN  IF r = 0 THEN h
      ELSE [h EXCEPT
             ![r].latestCaptureDateAndTime = dateAndTime,
             ![r].pilot = IF distAndDrone.distance < h[r].closestDistanceInMm
                          THEN null ELSE @,
             ![r].closestDistanceInMm =
                IF distAndDrone.distance <= @ THEN distAndDrone.distance ELSE @]

\* The body of updateViolations' loop for one entry of distancePerDrone.
UpdateOne(vs, h, distAndDrone, dateAndTime) ==
  LET r == serialNumberViolationMap(vs, h, distAndDrone.serialNumber)
  IN  IF r = 0 THEN h
      ELSE [h EXCEPT
             ![r].latestCaptureDateAndTime = dateAndTime,
             ![r].closestDistanceInMm =
                IF distAndDrone.distance <= @ THEN distAndDrone.distance ELSE @]

\* updateViolations: the loop over distancePerDrone, in order.
RECURSIVE updateViolations(_, _, _, _)
updateViolations(vs, h, distancePerDrone, dateAndTime) ==
  IF distancePerDrone = <<>> THEN h
  ELSE updateViolations(vs, UpdateOne(vs, h, Head(distancePerDrone), dateAndTime),
                        Tail(distancePerDrone), dateAndTime)

\* --------------------------------------------------- checkNewViolations
\* droneCapture.map(drone => ({serialNumber, distance}))
distToNDZCenterPerDrone(droneCapture) ==
  [i \in 1 .. Len(droneCapture) |->
     [serialNumber |-> droneCapture[i].serialNumber,
      distance |-> calcDistanceToNDZcenter(droneCapture[i])]]

\* Mutant: the zone is taken a metre wider.
InRadius_MetreWider(d) == d.distance <= NDZRadiusInMm + 1000

InRadius(d) == d.distance <= NDZRadiusInMm

tooCloseDistPerDrone(droneCapture) ==
  SelectSeq(distToNDZCenterPerDrone(droneCapture), InRadius)

existingSerialNumbers(vs, h) == {h[vs[i]].serialNumber : i \in 1 .. Len(vs)}

tooCloseDistPerNewDrone(droneCapture, vs, h) ==
  SelectSeq(tooCloseDistPerDrone(droneCapture),
            LAMBDA d : d.serialNumber \notin existingSerialNumbers(vs, h))

\* fetchPilots' mapping of one settled result.  Destructuring response.data
\* throws when a 200 answer carries no object.
Throws(result) ==
  result.status = "fulfilled" /\ result.httpStatus = 200 /\ result.data = null

PilotOf(result) ==
  IF result.status = "fulfilled" /\ result.httpStatus = 200
  THEN [firstName |-> result.data.firstName, lastName |-> result.data.lastName,
        phoneNumber |-> result.data.phoneNumber, email |-> result.data.email]
  ELSE null

\* Mutant: Promise.all instead of Promise.allSettled, one rejection fails
\* the batch.
fetchPilots_AllOrNothing(results) ==
  IF \E i \in 1 .. Len(results) : Throws(results[i]) \/ results[i].status = "rejected"
  THEN null
  ELSE [pilots |-> [i \in 1 .. Len(results) |-> PilotOf(results[i])]]

\* fetchPilots' return value for the settled results: the list of pilots, or
\* null when the mapping threw (the catch branch).
fetchPilots(results) ==
  IF \E i \in 1 .. Len(results) : Throws(results[i])
  THEN null
  ELSE [pilots |-> [i \in 1 .. Len(results) |-> PilotOf(results[i])]]

\* The references the next n pushed objects get.
RECURSIVE FreshRefs(_, _)
FreshRefs(used, n) ==
  IF n = 0 THEN <<>>
  ELSE LET r == CHOOSE x \in Refs \ used : \A y \in Refs \ used : x <= y
       IN  <<r>> \o FreshRefs(used \cup {r}, n - 1)

\* newViolations: one NDZViolation per newly seen drone.
newViolations(newDrones, pilots, dateAndTime) ==
  [i \in 1 .. Len(newDrones) |->
     [serialNumber |-> newDrones[i].serialNumber,
      pilot |-> pilots[i],
      closestDistanceInMm |-> newDrones[i].distance,
      latestCaptureDateAndTime |-> dateAndTime]]

\* ---------------------------------------------------------------- actions
\* A continuation is runnable without waiting for I/O: it runs next.
Busy ==
  \E c \in Cycles :
    \/ cycles[c].pc \in {"gotReport", "gotPilots"}
    \/ cycles[c].pc = "fetchPilots" /\ cycles[c].newDrones = <<>>

FreeCycle ==
  CHOOSE c \in Cycles :
    cycles[c].pc = "idle" /\ \A d \in Cycles : cycles[d].pc = "idle" => c <= d

\* Mutant: the eviction pass is the last step of the cycle body, so a tick
\* that does not fetch does not evict.
TickWithin_EvictsOnlyWhenFetching(maxTicks) ==
  /\ ~Busy
  /\ now < maxTicks * fetchIntervalInSecs * 1000
  /\ IF throttleTimers = <<>> THEN TRUE ELSE Head(throttleTimers) > now
  /\ IF throttle THEN TRUE ELSE \E c \in Cycles : cycles[c].pc = "idle"
  /\ now' = now + fetchIntervalInSecs * 1000
  /\ cycles' = IF throttle THEN cycles
               ELSE [cycles EXCEPT ![FreeCycle].pc = "fetchDrones"]
  /\ violations' = IF throttle THEN violations
                   ELSE removeTooOldViolations(violations, heap, now')
  /\ heap' = [r \in Live(violations', returned) |-> heap[r]]
  /\ lastOp' = [op |-> "tick",
                started |-> ~throttle,
                removed |-> {heap[r] : r \in Range(violations) \ Range(violations')}]
  /\ UNCHANGED <<browser, feedLag, lastUpdatedAt, throttle, throttleTimers, returned, last429At>>

\* Mutant: the interval callback records the time of every poll attempt.
TickWithin_StampsEveryTick(maxTicks) ==
  /\ ~Busy
  /\ now < maxTicks * fetchIntervalInSecs * 1000
  /\ IF throttleTimers = <<>> THEN TRUE ELSE Head(throttleTimers) > now
  /\ IF throttle THEN TRUE ELSE \E c \in Cycles : cycles[c].pc = "idle"
  /\ now' = now + fetchIntervalInSecs * 1000
  /\ cycles' = IF throttle THEN cycles
               ELSE [cycles EXCEPT ![FreeCycle].pc = "fetchDrones"]
  /\ violations' = removeTooOldViolations(violations, heap, now')
  /\ heap' = [r \in Live(violations', returned) |-> heap[r]]
  /\ lastUpdatedAt' = Date(now')
  /\ lastOp' = [op |-> "tick",
                started |-> ~throttle,
                removed |-> {heap[r] : r \in Range(violations) \ Range(violations')}]
  /\ UNCHANGED <<browser, feedLag, throttle, throttleTimers, returned, last429At>>

\* The interval has passed and the setInterval callback of start() runs:
\* checkNewViolations() up to its first await, then removeTooOldViolations().
\* A timeout that was due before this tick has run before it.  maxTicks
\* bounds the ticks that are explored.
TickWithin(maxTicks) ==
  /\ ~Busy
  /\ now < maxTicks * fetchIntervalInSecs * 1000
  /\ IF throttleTimers = <<>> THEN TRUE ELSE Head(throttleTimers) > now
  /\ IF throttle THEN TRUE ELSE \E c \in Cycles : cycles[c].pc = "idle"
  /\ now' = now + fetchIntervalInSecs * 1000
  /\ cycles' = IF throttle THEN cycles
               ELSE [cycles EXCEPT ![FreeCycle].pc = "fetchDrones"]
  /\ violations' = removeTooOldViolations(violations, heap, now')
  /\ heap' = [r \in Live(violations', returned) |-> heap[r]]
  /\ lastOp' = [op |-> "tick",
                started |-> ~throttle,
                removed |-> {heap[r] : r \in Range(violations) \ Range(violations')}]
  /\ UNCHANGED <<browser, feedLag, lastUpdatedAt, throttle, throttleTimers, returned, last429At>>

Tick == TickWithin(MaxTicks)

\* fetchDrones settles: the parsed report, a 429, or another failure.
FetchDronesOk(c) ==
  /\ ~Busy
  /\ cycles[c].pc = "fetchDrones"
  /\ \E report \in DroneReports(now, feedLag) :
       cycles' = [cycles EXCEPT ![c].pc = "gotReport", ![c].droneReport = report]
  /\ lastOp' = NoOp
  /\ UNCHANGED <<browser, now, feedLag, violations, heap, lastUpdatedAt, throttle,
                 throttleTimers, returned, last429At>>

\* Mutant: the 429 branch sets the flag and arms no timeout.
FetchDronesRateLimited_NoTimeout(c) ==
  /\ ~Busy
  /\ cycles[c].pc = "fetchDrones"
  /\ throttle' = TRUE
  /\ last429At' = Date(now)
  /\ cycles' = [cycles EXCEPT ![c].pc = "gotReport", ![c].droneReport = null]
  /\ lastOp' = NoOp
  /\ UNCHANGED <<browser, now, feedLag, violations, heap, lastUpdatedAt, returned, throttleTimers>>

FetchDronesRateLimited(c) ==
  /\ ~Busy
  /\ cycles[c].pc = "fetchDrones"
  /\ throttle' = TRUE
  /\ throttleTimers' = Append(throttleTimers, now + ThrottleMs)
  /\ last429At' = Date(now)
  /\ cycles' = [cycles EXCEPT ![c].pc = "gotReport", ![c].droneReport = null]
  /\ lastOp' = NoOp
  /\ UNCHANGED <<browser, now, feedLag, violations, heap, lastUpdatedAt, returned>>

FetchDronesFailed(c) ==
  /\ ~Busy
  /\ cycles[c].pc = "fetchDrones"
  /\ cycles' = [cycles EXCEPT ![c].pc = "gotReport", ![c].droneReport = null]
  /\ lastOp' = NoOp
  /\ UNCHANGED <<browser, now, feedLag, violations, heap, lastUpdatedAt, throttle,
                 throttleTimers, returned, last429At>>

\* setTimeout(() => (this.throttle = false), 6000)
ThrottleTimeout ==
  /\ ~Busy
  /\ throttleTimers # <<>>
  /\ now >= Head(throttleTimers)
  /\ throttle' = FALSE
  /\ throttleTimers' = Tail(throttleTimers)
  /\ lastOp' = NoOp
  /\ UNCHANGED <<browser, now, feedLag, violations, heap, lastUpdatedAt, cycles, returned,
                 last429At>>

\* Mutant: the cycle stamps lastUpdatedAt before it looks at the drone list.
ProcessReport_StampsEmpty(c) ==
  /\ cycles[c].pc = "gotReport"
  /\ LET report == cycles[c].droneReport
         ends == IF report = null THEN TRUE
                 ELSE IF Len(report.drone) = 0 THEN TRUE
                 ELSE Len(tooCloseDistPerDrone(report.drone)) = 0
     IN  /\ lastUpdatedAt' = IF report = null THEN lastUpdatedAt ELSE Date(now)
         /\ IF ends
            THEN /\ cycles' = [cycles EXCEPT ![c] = IdleCycle]
                 /\ lastOp' = [op |-> "ended", droneReport |-> report]
            ELSE /\ cycles' = [cycles EXCEPT
                      ![c].pc = "fetchPilots",
                      ![c].distToNDZCenterPerDrone =
                         distToNDZCenterPerDrone(report.drone),
                      ![c].newDrones =
                         tooCloseDistPerNewDrone(report.drone, violations, heap)]
                 /\ lastOp' = NoOp
  /\ UNCHANGED <<browser, now, feedLag, violations, heap, throttle,
                 throttleTimers, returned, last429At>>

\* checkNewViolations from the feed's answer to the pilot requests.
ProcessReport(c) ==
  /\ cycles[c].pc = "gotReport"
  /\ LET report == cycles[c].droneReport
         ends == IF report = null THEN TRUE
                 ELSE IF Len(report.drone) = 0 THEN TRUE
                 ELSE Len(tooCloseDistPerDrone(report.drone)) = 0
     IN  IF ends
         THEN /\ cycles' = [cycles EXCEPT ![c] = IdleCycle]
              /\ lastOp' = [op |-> "ended", droneReport |-> report]
         ELSE /\ cycles' = [cycles EXCEPT
                   ![c].pc = "fetchPilots",
                   ![c].distToNDZCenterPerDrone = distToNDZCenterPerDrone(report.drone),
                   ![c].newDrones =
                      tooCloseDistPerNewDrone(report.drone, violations, heap)]
              /\ lastOp' = NoOp
  /\ UNCHANGED <<browser, now, feedLag, violations, heap, lastUpdatedAt, throttle,
                 throttleTimers, returned, last429At>>

\* Promise.allSettled settles: fetchPilots returns.
FetchPilotsDone(c) ==
  /\ cycles[c].pc = "fetchPilots"
  /\ IF cycles[c].newDrones = <<>> THEN TRUE ELSE ~Busy
  /\ LET newDrones == cycles[c].newDrones
     IN  \E results \in [1 .. Len(newDrones) ->
                          UNION {LookupResults(sn) : sn \in SerialNumbers}] :
           /\ \A i \in 1 .. Len(newDrones) :
                results[i] \in LookupResults(newDrones[i].serialNumber)
           /\ cycles' = [cycles EXCEPT ![c].pc = "gotPilots",
                                       ![c].lookups = results,
                                       ![c].newPilots = fetchPilots(results)]
  /\ lastOp' = NoOp
  /\ UNCHANGED <<browser, now, feedLag, violations, heap, lastUpdatedAt, throttle,
                 throttleTimers, returned, last429At>>

\* Mutant: the tracked records are updated before the pilots are looked at.
Complete_UpdatesOnSentinel(c) ==
  /\ cycles[c].pc = "gotPilots"
  /\ LET cy == cycles[c]
         dateAndTime == Date(cy.droneReport.snapshotTimestamp)
     IN  IF cy.newPilots = null
         THEN /\ cycles' = [cycles EXCEPT ![c] = IdleCycle]
              /\ lastOp' = [op |-> "skipped", droneReport |-> cy.droneReport,
                            newDrones |-> cy.newDrones, lookups |-> cy.lookups]
              /\ heap' = updateViolations(violations, heap,
                            cy.distToNDZCenterPerDrone, dateAndTime)
              /\ UNCHANGED <<violations, lastUpdatedAt>>
         ELSE /\ Cardinality(Refs \ DOMAIN heap) >= Len(cy.newDrones)
              /\ LET refs == FreshRefs(DOMAIN heap, Len(cy.newDrones))
                     objs == newViolations(cy.newDrones, cy.newPilots.pilots, dateAndTime)
                     pushed == violations \o refs
                     h1 == [r \in DOMAIN heap \cup Range(refs) |->
                              IF r \in DOMAIN heap THEN heap[r]
                              ELSE objs[CHOOSE i \in 1 .. Len(refs) : refs[i] = r]]
                 IN  /\ violations' = pushed
                     /\ heap' = updateViolations(pushed, h1,
                                   cy.distToNDZCenterPerDrone,
                                   dateAndTime)
              /\ lastUpdatedAt' = Date(now)
              /\ cycles' = [cycles EXCEPT ![c] = IdleCycle]
              /\ lastOp' = [op |-> "completed", droneReport |-> cy.droneReport,
                            newDrones |-> cy.newDrones, lookups |-> cy.lookups]
  /\ UNCHANGED <<browser, now, feedLag, throttle, throttleTimers, returned, last429At>>

\* checkNewViolations from the pilots to its end.
Complete(c) ==
  /\ cycles[c].pc = "gotPilots"
  /\ LET cy == cycles[c]
         dateAndTime == Date(cy.droneReport.snapshotTimestamp)
     IN  IF cy.newPilots = null
         THEN /\ cycles' = [cycles EXCEPT ![c] = IdleCycle]
              /\ lastOp' = [op |-> "skipped", droneReport |-> cy.droneReport,
                            newDrones |-> cy.newDrones, lookups |-> cy.lookups]
              /\ UNCHANGED <<violations, heap, lastUpdatedAt>>
         ELSE /\ Cardinality(Refs \ DOMAIN heap) >= Len(cy.newDrones)
              /\ LET refs == FreshRefs(DOMAIN heap, Len(cy.newDrones))
                     objs == newViolations(cy.newDrones, cy.newPilots.pilots, dateAndTime)
                     pushed == violations \o refs
                     h1 == [r \in DOMAIN heap \cup Range(refs) |->
                              IF r \in DOMAIN heap THEN heap[r]
                              ELSE objs[CHOOSE i \in 1 .. Len(refs) : refs[i] = r]]
                 IN  /\ violations' = pushed
                     /\ heap' = updateViolations(pushed, h1,
                                   cy.distToNDZCenterPerDrone,
                                   dateAndTime)
              /\ lastUpdatedAt' = Date(now)
              /\ cycles' = [cycles EXCEPT ![c] = IdleCycle]
              /\ lastOp' = [op |-> "completed", droneReport |-> cy.droneReport,
                            newDrones |-> cy.newDrones, lookups |-> cy.lookups]
  /\ UNCHANGED <<browser, now, feedLag, throttle, throttleTimers, returned, last429At>>

\* ------------------------------------------------------------ the caller
\* A caller of getViolations (the controller) receives the copy ...
CallGetViolations ==
  /\ ~Busy
  /\ returned = <<>>
  /\ violations # <<>>
  /\ returned' = getViolations
  /\ lastOp' = NoOp
  /\ UNCHANGED <<browser, now, feedLag, violations, heap, lastUpdatedAt, throttle, throttleTimers,
                 cycles, last429At>>

\* ... and may change it: remove an element,
CallerPop ==
  /\ ~Busy
  /\ returned # <<>>
  /\ returned' = SubSeq(returned, 1, Len(returned) - 1)
  /\ heap' = [r \in Live(violations, returned') |-> heap[r]]
  /\ lastOp' = [op |-> "caller"]
  /\ UNCHANGED <<browser, now, feedLag, violations, lastUpdatedAt, throttle, throttleTimers,
                 cycles, last429At>>

\* add an element,
CallerPush ==
  /\ ~Busy
  /\ returned # <<>>
  /\ Len(returned) < MaxRefs
  /\ returned' = Append(returned, returned[1])
  /\ lastOp' = [op |-> "caller"]
  /\ UNCHANGED <<browser, now, feedLag, violations, heap, lastUpdatedAt, throttle, throttleTimers,
                 cycles, last429At>>

\* or write a field of a record it finds in it.
CallerSetField ==
  /\ ~Busy
  /\ \E i \in 1 .. Len(returned) :
       /\ heap[returned[i]].closestDistanceInMm # 0
       /\ heap' = [heap EXCEPT ![returned[i]].closestDistanceInMm = 0]
  /\ lastOp' = [op |-> "caller"]
  /\ UNCHANGED <<browser, now, feedLag, violations, lastUpdatedAt, throttle, throttleTimers,
                 cycles, returned, last429At>>

\* -------------------------------------------------------------- the page
\* JSON.stringify of a Date is its ISO string (millisecond resolution), and
\* new Date(string) reads it back.
toISOString(date) == [iso |-> date.time]
NewDate(string) == Date(string.iso)

\* res.json(...): the body the controller sends.
toJSON(vs, h, updatedAt) ==
  [violations |->
     [i \in 1 .. Len(vs) |->
        [serialNumber |-> h[vs[i]].serialNumber,
         pilot |-> h[vs[i]].pilot,
         closestDistanceInMm |-> h[vs[i]].closestDistanceInMm,
         latestCaptureDateAndTime |-> toISOString(h[vs[i]].latestCaptureDateAndTime)]],
   lastUpdatedAt |-> IF updatedAt = null THEN null ELSE toISOString(updatedAt)]

\* A poll of the page reaches the controller, which answers with the list
\* and lastUpdatedAt as they are now.  Responses are numbered in the order
\* in which they are produced.
ControllerGetViolations ==
  /\ ~Busy
  /\ browser.polls < MaxPolls
  /\ browser' = [browser EXCEPT
       !.polls = @ + 1,
       !.responses = @ \cup {[seq |-> browser.polls + 1, status |-> 200,
                              data |-> toJSON(getViolations, heap, lastUpdatedAt)]}]
  /\ lastOp' = NoOp
  /\ UNCHANGED <<now, feedLag, violations, heap, lastUpdatedAt, throttle, throttleTimers,
                 cycles, returned, last429At>>

\* A poll of the page fails: fetch rejects or the status is not 200.
PollFails ==
  /\ browser.polls < MaxPolls
  /\ browser' = [browser EXCEPT
       !.polls = @ + 1,
       !.responses = @ \cup {[seq |-> browser.polls + 1, status |-> 0, data |-> null]}]
  /\ lastOp' = NoOp
  /\ UNCHANGED <<now, feedLag, violations, heap, lastUpdatedAt, throttle, throttleTimers,
                 cycles, returned, last429At>>

\* ViolationTable.getViolations for a response that arrived: [violations,
\* updatedAt], the array as a value that can be told from null.
ViolationTable_getViolations(response) ==
  IF response.status # 200 THEN <<null, null>>
  ELSE <<[array |-> response.data.violations],
         IF response.data.lastUpdatedAt # null
         THEN NewDate(response.data.lastUpdatedAt) ELSE null>>

\* (closestDistanceInMm / 1000).toFixed(2), as hundredths of a metre.
toFixed2(mm) == (mm + 5) \div 10

\* violationsToHTML: one row per violation.
violationsToHTML(vs) ==
  [i \in 1 .. Len(vs) |->
     [distance |-> toFixed2(vs[i].closestDistanceInMm),
      firstName |-> IF vs[i].pilot = null THEN "N/A" ELSE vs[i].pilot.firstName,
      lastName |-> IF vs[i].pilot = null THEN "N/A" ELSE vs[i].pilot.lastName,
      phoneNumber |-> IF vs[i].pilot = null THEN "N/A" ELSE vs[i].pilot.phoneNumber,
      email |-> IF vs[i].pilot = null THEN "N/A" ELSE vs[i].pilot.email]]

\* updateTableContent from the arrival of its response on.
updateTableContent(response) ==
  /\ response \in browser.responses
  /\ LET vs == ViolationTable_getViolations(response)[1]
         dateAndTime == ViolationTable_getViolations(response)[2]
         previous == browser.perviousDataDateAndTime
         late == IF dateAndTime = null \/ previous = null THEN FALSE
                 ELSE dateAndTime.time < previous.time
         rest == [browser EXCEPT !.responses = @ \ {response}]
     IN  browser' =
           IF late THEN rest
           ELSE [rest EXCEPT
                   !.perviousDataDateAndTime = IF dateAndTime # null THEN dateAndTime ELSE @,
                   !.display = IF vs = null THEN "error"
                               ELSE IF Len(vs.array) = 0 THEN "noContent" ELSE "table",
                   !.rows = IF vs = null THEN <<>> ELSE violationsToHTML(vs.array),
                   !.shownFrom = response.seq]
  /\ lastOp' = NoOp
  /\ UNCHANGED <<now, feedLag, violations, heap, lastUpdatedAt, throttle, throttleTimers,
                 cycles, returned, last429At>>

\* ----------------------------------------------------------- the program
Next ==
  \/ Tick
  \/ ThrottleTimeout
  \/ \E c \in Cycles : FetchDronesOk(c)
  \/ \E c \in Cycles : FetchDronesRateLimited(c)
  \/ \E c \in Cycles : FetchDronesFailed(c)
  \/ \E c \in Cycles : ProcessReport(c)
  \/ \E c \in Cycles : FetchPilotsDone(c)
  \/ \E c \in Cycles : Complete(c)

Spec == Init /\ [][Next]_vars

\* The monitor while the feed answers every fetch with a report or fails
\* without a rate-limit signal.
NextFeedUp ==
  \/ Tick
  \/ \E c \in Cycles : FetchDronesOk(c)
  \/ \E c \in Cycles : FetchDronesFailed(c)
  \/ \E c \in Cycles : ProcessReport(c)
  \/ \E c \in Cycles : FetchPilotsDone(c)
  \/ \E c \in Cycles : Complete(c)

SpecFeedUp == Init /\ [][NextFeedUp]_vars

\* The monitor while the feed answers no fetch with a report.
NextFeedDown ==
  \/ TickWithin(MaxFeedDownTicks)
  \/ ThrottleTimeout
  \/ \E c \in Cycles : FetchDronesRateLimited(c)
  \/ \E c \in Cycles : FetchDronesFailed(c)
  \/ \E c \in Cycles : ProcessReport(c)

SpecFeedDown == Init /\ [][NextFeedDown]_vars

\* The monitor while the feed answers, and a caller of getViolations.
NextCaller ==
  \/ TickWithin(MaxCallerTicks)
  \/ \E c \in Cycles : FetchDronesOk(c)
  \/ \E c \in Cycles : ProcessReport(c)
  \/ \E c \in Cycles : FetchPilotsDone(c)
  \/ \E c \in Cycles : Complete(c)
  \/ CallGetViolations
  \/ CallerPop
  \/ CallerPush
  \/ CallerSetField

SpecCaller == Init /\ [][NextCaller]_vars

\* The monitor while the feed answers, and a page that polls it.
NextBrowser ==
  \/ TickWithin(MaxBrowserTicks)
  \/ \E c \in Cycles : FetchDronesOk(c)
  \/ \E c \in Cycles : ProcessReport(c)
  \/ \E c \in Cycles : FetchPilotsDone(c)
  \/ \E c \in Cycles : Complete(c)
  \/ ControllerGetViolations
  \/ PollFails
  \/ \E response \in browser.responses : updateTableContent(response)

SpecBrowser == Init /\ [][NextBrowser]_vars

\* The feed answers with reports for a while and then goes down for good:
\* from then on every fetch fails or is answered 429.
FeedUp == now <= FeedUpTicks * fetchIntervalInSecs * 1000

NextOutage ==
  \/ TickWithin(MaxOutageTicks)
  \/ ThrottleTimeout
  \/ \E c \in Cycles : FeedUp /\ FetchDronesOk(c)
  \/ \E c \in Cycles : FetchDronesRateLimited(c)
  \/ \E c \in Cycles : FetchDronesFailed(c)
  \/ \E c \in Cycles : ProcessReport(c)
  \/ \E c \in Cycles : FetchPilotsDone(c)
  \/ \E c \in Cycles : Complete(c)

\* The step by which a run that has its pilots comes to its end, whatever it
\* does to the store on the way: the step Complete(c) takes.
Resumes(c) ==
  /\ cycles[c].pc = "gotPilots"
  /\ cycles' = [cycles EXCEPT ![c] = IdleCycle]

\* The event loop runs every callback that is due: the interval timer, the
\* cooldown timeout and the continuations of a run; every request settles.
FairOutage ==
  /\ WF_vars(TickWithin(MaxOutageTicks))
  /\ WF_vars(ThrottleTimeout)
  /\ \A c \in Cycles :
       /\ WF_vars((FeedUp /\ FetchDronesOk(c)) \/ FetchDronesRateLimited(c)
                    \/ FetchDronesFailed(c))
       /\ WF_vars(ProcessReport(c))
       /\ WF_vars(FetchPilotsDone(c))
       /\ WF_cycles(Resumes(c))

SpecOutage == Init /\ [][NextOutage]_vars /\ FairOutage

\* ============================================================== properties
\* The store as the list of its records.
Store == [i \in 1 .. Len(violations) |-> heap[violations[i]]]

\* The records that are in the store before and after a step.
Kept == Range(violations) \cap Range(violations')

\* The serial numbers a report lists within the no-drone zone.
InRadiusSerialNumbers(report) ==
  {report.drone[i].serialNumber :
     i \in {j \in 1 .. Len(report.drone) :
              calcDistanceToNDZcenter(report.drone[j]) <= 100000}}

Min(a, b) == IF a <= b THEN a ELSE b

\* C1: the store holds at most one record per serialNumber, in every
\* reachable state and under any interleaving of ticks and completions.
C1_AtMostOneRecordPerSerialNumber ==
  \A i, j \in 1 .. Len(violations) :
    heap[violations[i]].serialNumber = heap[violations[j]].serialNumber => i = j

\* C2: when a cycle that fetched a snapshot has run to its end, the store
\* holds a record for every drone of the snapshot within 100 000 mm.
C2_RecordForEveryDroneInRadius ==
  lastOp.op = "completed" =>
    \A sn \in InRadiusSerialNumbers(lastOp.droneReport) :
      \E r \in Range(violations) : heap[r].serialNumber = sn

\* C3: lastSeenAt of a record changes only through a snapshot in which its
\* drone is within the radius; a snapshot that lists the drone outside the
\* radius leaves lastSeenAt as it was.
C3_LastSeenAtOnlyFromInRadiusSnapshots ==
  [][\A r \in Kept :
       heap'[r].latestCaptureDateAndTime # heap[r].latestCaptureDateAndTime =>
         /\ lastOp'.op = "completed"
         /\ heap[r].serialNumber \in InRadiusSerialNumbers(lastOp'.droneReport)]_vars

\* The distance at which a report lists the drone sn (the feed lists it once).
ReportedDistance(report, sn) ==
  calcDistanceToNDZcenter(
    report.drone[CHOOSE i \in 1 .. Len(report.drone) : report.drone[i].serialNumber = sn])

ListedSerialNumbers(report) ==
  {report.drone[i].serialNumber : i \in 1 .. Len(report.drone)}

NewSerialNumbers(op) == {op.newDrones[i].serialNumber : i \in 1 .. Len(op.newDrones)}

\* C4: over a record's lifetime closestDistanceMm never increases, and an
\* update by a snapshot that lists the drone sets it to the smaller of the
\* existing value and the newly observed distance (to the existing value or
\* that minimum when the store holds a second record of the drone).
C4_ClosestDistanceNeverIncreases ==
  [][\A r \in Kept :
       /\ heap'[r].closestDistanceInMm <= heap[r].closestDistanceInMm
       /\ (lastOp'.op = "completed"
             /\ heap[r].serialNumber \in ListedSerialNumbers(lastOp'.droneReport)) =>
            LET least == Min(heap[r].closestDistanceInMm,
                             ReportedDistance(lastOp'.droneReport, heap[r].serialNumber))
                alone == \A q \in Range(violations') :
                           heap'[q].serialNumber = heap[r].serialNumber => q = r
            IN  /\ heap'[r].closestDistanceInMm \in {heap[r].closestDistanceInMm, least}
                /\ alone => heap'[r].closestDistanceInMm = least]_vars

\* A record at 50 000 mm was already tracked, the snapshot of the cycle that
\* just ended lists its drone at 100 000 mm, and the record still says 50 000.
C4_Witness ==
  /\ lastOp.op = "completed"
  /\ \E r \in Range(violations) :
       /\ heap[r].serialNumber \in ListedSerialNumbers(lastOp.droneReport)
       /\ heap[r].serialNumber \notin NewSerialNumbers(lastOp)
       /\ ReportedDistance(lastOp.droneReport, heap[r].serialNumber) = 100000
       /\ heap[r].closestDistanceInMm = 50000
       /\ heap[r].latestCaptureDateAndTime.time = lastOp.droneReport.snapshotTimestamp

\* C5: the pilot (and the serialNumber) of a record never changes while the
\* record stays in the store.
C5_PilotNeverChanges ==
  [][\A r \in Kept :
       /\ heap'[r].pilot = heap[r].pilot
       /\ heap'[r].serialNumber = heap[r].serialNumber]_vars

\* The cycle that just ended updated a record that was already tracked (its
\* lastSeenAt is the snapshot's), and the record still has its pilot; another
\* record keeps its null pilot.
C5_Witness ==
  /\ lastOp.op = "completed"
  /\ \E r \in Range(violations) :
       /\ heap[r].serialNumber \in InRadiusSerialNumbers(lastOp.droneReport)
       /\ heap[r].serialNumber \notin NewSerialNumbers(lastOp)
       /\ heap[r].latestCaptureDateAndTime.time = lastOp.droneReport.snapshotTimestamp
       /\ heap[r].pilot # null
       /\ heap[r].pilot.firstName = heap[r].serialNumber

\* C6: an eviction pass at wall-clock time now removes exactly the records
\* whose lastSeenAt is strictly older than now - 10 minutes, and leaves the
\* others as they are and in their order.
C6_EvictionRemovesExactlyTheTooOld ==
  [][lastOp'.op = "tick" =>
       /\ \A r \in Range(violations) :
            r \in Range(violations') <=>
              ~(heap[r].latestCaptureDateAndTime.time < now' - 10 * 60 * 1000)
       /\ \A r \in Kept : heap'[r] = heap[r]
       /\ violations' = SelectSeq(violations, LAMBDA r : r \in Range(violations'))]_vars

\* The last eviction pass removed a record (older than 10 minutes) and kept
\* one that is exactly 10 minutes old.
C6_Witness ==
  /\ lastOp.op = "tick"
  /\ \E v \in lastOp.removed : now - v.latestCaptureDateAndTime.time > 600000
  /\ \E r \in Range(violations) : now - heap[r].latestCaptureDateAndTime.time = 600000

\* C7: no fetch of the drone feed is started during the 6 seconds that
\* follow a 429 answer.  (A 429 stamped s arrived after the tick at s.)
C7_NoFetchWithinCooldown ==
  [][(lastOp'.op = "tick" /\ lastOp'.started /\ last429At # null) =>
       now' - last429At.time >= 6000]_vars

\* C8: nothing a caller does to the list getViolations returned changes the
\* monitor's store.
C8_CallerCannotChangeStore ==
  [][lastOp'.op = "caller" => Store' = Store]_vars

\* A cycle ended on a snapshot with an empty drone list.
EndedOnEmptySnapshot(op) ==
  /\ op.op = "ended"
  /\ op.droneReport # null
  /\ Len(op.droneReport.drone) = 0

\* C9 (as claimed): a cycle whose snapshot has an empty drone list advances
\* lastUpdatedAt to the current time.
C9_EmptySnapshotAdvancesLastUpdatedAt ==
  EndedOnEmptySnapshot(lastOp) => lastUpdatedAt = Date(now)

\* C9 (amended): a cycle whose fetch succeeds and whose snapshot has an empty
\* drone list changes neither lastUpdatedAt nor any record.
C9_EmptySnapshotChangesNothing ==
  [][EndedOnEmptySnapshot(lastOp') =>
       /\ lastUpdatedAt' = lastUpdatedAt
       /\ violations' = violations
       /\ heap' = heap]_vars

\* A cycle has just ended on an empty snapshot, and lastUpdatedAt is still
\* the time of an earlier cycle.
C9_Witness ==
  /\ EndedOnEmptySnapshot(lastOp)
  /\ lastUpdatedAt # null
  /\ lastUpdatedAt.time < now
  /\ violations # <<>>

LookupFailed(result) == result.status = "rejected" \/ result.httpStatus # 200
LookupSucceeded(result) ==
  result.status = "fulfilled" /\ result.httpStatus = 200 /\ result.data # null

\* The pilot a lookup's result stands for.
ExpectedPilot(result) ==
  IF LookupFailed(result) THEN null
  ELSE [firstName |-> result.data.firstName, lastName |-> result.data.lastName,
        phoneNumber |-> result.data.phoneNumber, email |-> result.data.email]

C11_SentinelSkipsTheCycle ==
  [][(lastOp'.op \in {"skipped", "none"}) =>
       /\ violations' = violations
       /\ heap' = heap
       /\ lastUpdatedAt' = lastUpdatedAt]_vars

\* A cycle was just skipped on the sentinel; its snapshot lists a tracked
\* drone closer than recorded and with a later timestamp, and a new drone
\* whose lookup answered 200 without a body; the record is as it was and no
\* record was made for the new drone.
C11_Witness ==
  /\ lastOp.op = "skipped"
  /\ lastUpdatedAt # null
  /\ \E i \in 1 .. Len(lastOp.newDrones) :
       /\ Throws(lastOp.lookups[i])
       /\ \A r \in Range(violations) :
            heap[r].serialNumber # lastOp.newDrones[i].serialNumber
  /\ \E r \in Range(violations) :
       /\ heap[r].serialNumber \in ListedSerialNumbers(lastOp.droneReport)
       /\ ReportedDistance(lastOp.droneReport, heap[r].serialNumber)
            < heap[r].closestDistanceInMm
       /\ heap[r].latestCaptureDateAndTime.time < lastOp.droneReport.snapshotTimestamp

\* The last wall-clock time from which the explored ticks still include the
\* two that bring any record past the retention time.
LastEvictableMs == (MaxOutageTicks - 2) * fetchIntervalInSecs * 1000

\* C12: with the interval timer firing, every record whose drone is not
\* reported again is removed from the store eventually, also when every fetch
\* fails or the client stays throttled.  (The feed is down from FeedUpTicks
\* on; the records considered are those for which two ticks are still
\* explored.)
C12_StaleRecordsAreEvicted ==
  \A r \in Refs :
    (r \in Range(violations) /\ ~FeedUp /\ now <= LastEvictableMs)
      ~> (r \notin Range(violations))

\* The feed is down and the client throttled, and the eviction pass of the
\* tick that just ran (it started no fetch) removed a record.
C12_Witness ==
  /\ ~FeedUp
  /\ throttle
  /\ lastOp.op = "tick"
  /\ ~lastOp.started
  /\ lastOp.removed # {}

\* A tick that started no fetch (the client was throttled), or the end of a
\* cycle whose fetch returned no report.
IdleTickOrUnavailable(op) ==
  \/ op.op = "tick" /\ ~op.started
  \/ op.op = "ended" /\ op.droneReport = null

\* C13 (as claimed): a tick during which the client is throttled, or whose
\* fetch returns no report, leaves the store and lastUpdatedAt unchanged: no
\* record is inserted, updated or removed.
C13_IdleTickChangesNothing ==
  [][IdleTickOrUnavailable(lastOp') =>
       /\ violations' = violations
       /\ heap' = heap
       /\ lastUpdatedAt' = lastUpdatedAt]_vars

\* C13 (amended): such a tick inserts no record, updates no record and
\* leaves lastUpdatedAt unchanged, but its eviction pass still runs: the
\* records it removes are those older than 10 minutes; the end of the cycle
\* whose fetch returned no report changes nothing.
C13_IdleTickOnlyEvicts ==
  [][(lastOp'.op = "tick" \/ IdleTickOrUnavailable(lastOp')) =>
       /\ lastUpdatedAt' = lastUpdatedAt
       /\ \A r \in Range(violations') : r \in Range(violations) /\ heap'[r] = heap[r]
       /\ \A r \in Range(violations) \ Range(violations') :
            lastOp'.op = "tick"
              /\ now' - heap[r].latestCaptureDateAndTime.time > msToStoreFor]_vars

\* The client is throttled; the tick that just ran started no fetch, and its
\* eviction pass removed a record; lastUpdatedAt is that of an earlier cycle.
C13_Witness ==
  /\ lastOp.op = "tick"
  /\ ~lastOp.started
  /\ \E v \in lastOp.removed : now - v.latestCaptureDateAndTime.time > msToStoreFor
  /\ lastUpdatedAt # null
  /\ lastUpdatedAt.time < now

\* C14: at most one run of checkNewViolations is in progress at any time; a
\* tick starts no run while an earlier one is suspended on the feed fetch or
\* on pilot resolution.
C14_AtMostOneCycleInProgress ==
  Cardinality({c \in Cycles : cycles[c].pc # "idle"}) <= 1

\* The serial numbers whose pilot lookups a run has issued and not yet seen
\* settled.
LookupsInFlight(c) ==
  IF cycles[c].pc = "fetchPilots"
  THEN {cycles[c].newDrones[i].serialNumber : i \in 1 .. Len(cycles[c].newDrones)}
  ELSE {}

\* C15: a drone's pilot is looked up once between two evictions of the
\* drone: while a lookup for a drone is in flight (it was issued when the drone
\* had no record), no second lookup for the same drone is issued, whatever
\* the interleaving of cycles.
C15_OneLookupPerDrone ==
  \A c, d \in Cycles :
    c # d => LookupsInFlight(c) \cap LookupsInFlight(d) = {}

\* C16: a throttled client leaves the throttled state by itself (the
\* cooldown timeout clears the flag), and a tick that finds the flag clear
\* starts a fetch again.  (The throttled states considered are those whose
\* cooldown ends within the explored ticks.)
C16_ThrottleClearsByItself ==
  /\ (throttle /\ now + ThrottleMs <= MaxOutageTicks * fetchIntervalInSecs * 1000)
       ~> ~throttle
  /\ [][(lastOp'.op = "tick" /\ ~throttle) =>
          \E c \in Cycles : cycles[c].pc = "idle" /\ cycles'[c].pc = "fetchDrones"]_vars

\* The feed answered 429, the cooldown timeout has run and cleared the flag,
\* and the tick that just ran started a fetch.
C16_Witness ==
  /\ last429At # null
  /\ ~throttle
  /\ throttleTimers = <<>>
  /\ lastOp.op = "tick"
  /\ lastOp.started
  /\ now - last429At.time >= ThrottleMs

\* C17: once the table shows the rows of a response, a response that the
\* server produced earlier never changes what is shown, also when the late
\* response carries no lastUpdatedAt, is a failed one, or carries the same
\* lastUpdatedAt as the one shown.
C17_LateResponseNeverReplacesNewer ==
  [][\A response \in browser.responses :
       (/\ response \notin browser'.responses
        /\ response.seq < browser.shownFrom
        /\ browser.display = "table") =>
         /\ browser'.display = browser.display
         /\ browser'.rows = browser.rows]_vars

\* C18: lastSeenAt of a record never moves backward while the record is in
\* the store, also when cycles overlap and the one that holds the older
\* snapshot ends last.
C18_LastSeenAtNeverMovesBackward ==
  [][\A r \in Kept :
       heap'[r].latestCaptureDateAndTime.time >= heap[r].latestCaptureDateAndTime.time]_vars

\* C19: in every reachable state every record of the store has
\* closestDistanceMm <= 100 000 mm.
C19_ClosestDistanceWithinRadius ==
  \A r \in Range(violations) : heap[r].closestDistanceInMm <= 100000

\* The cycle that just ended had a snapshot that lists a tracked drone at
\* 101 000 mm, outside the radius; its record was updated from that snapshot
\* and still says 100 000 mm, the distance at which it was created.
C19_Witness ==
  /\ lastOp.op = "completed"
  /\ \E r \in Range(violations) :
       /\ heap[r].serialNumber \in ListedSerialNumbers(lastOp.droneReport)
       /\ ReportedDistance(lastOp.droneReport, heap[r].serialNumber) = 101000
       /\ heap[r].latestCaptureDateAndTime.time = lastOp.droneReport.snapshotTimestamp
       /\ heap[r].closestDistanceInMm = 100000

====
